---- MODULE Spec2Model ----
(***************************************************************************)
(* Model of dxf2gcode.py: the DXFToGcode converter and the main() pipeline *)
(* that drives it.                                                         *)
(*                                                                         *)
(* Units.  A coordinate is an integer number of ticks, one tick being      *)
(* 1e-4 drawing units, so that points closer than the 1e-3 reposition      *)
(* tolerance but not equal can be told apart.  A number printed with       *)
(* "{:.3f}" is the integer number of thousandths it is rounded to          *)
(* (10.000 is 10000).  The sign of a printed zero ("-0.000") is not kept.  *)
(* Values computed by the bulge arithmetic are exact rationals w + n/d.    *)
(***************************************************************************)
EXTENDS Integers, Sequences, FiniteSets, TLC

\* dxf2gcode: the run (pc), the drawing read and whether reading worked
\* (msp, doc), the loop index, the converter's fields, the file this run
\* wrote, and what an earlier run on the same drawing produced (prev)
VARIABLES pc, msp, doc, idx, gcode, current_pos, laser_on, entity_count,
          outfile, prev
\* the bulge arithmetic taken alone: its arguments and results
VARIABLES arc
\* fluidnc_upload: the run (u_pc), the files named on the command line and
\* the one being uploaded, the requests sent with their responses, the
\* return value of each upload_file call, and main's success flag
VARIABLES u_pc, u_use_sd, u_files, u_idx, u_log, u_rets, u_success

convVars == <<pc, msp, doc, idx, gcode, current_pos, laser_on, entity_count,
              outfile, prev>>
uploadVars == <<u_pc, u_use_sd, u_files, u_idx, u_log, u_rets, u_success>>
vars == <<convVars, arc, uploadVars>>

\* ----------------------------------------------------------------- bounds
MaxEntities == 2
MaxVerts == 3

\* ------------------------------------------------------ program constants
power == 1000
feed_rate == 6000
\* ticks in one printed thousandth: the precision of "{:.3f}"
TicksPerMilli == 10
\* the reposition tolerance 0.001, in ticks
Tolerance == 10
\* the bulge threshold 0.001 is 1/BulgeTolDen
BulgeTolDen == 1000

\* ------------------------------------------------------------- arithmetic
Abs(a) == IF a < 0 THEN 0 - a ELSE a
Sign(a) == IF a < 0 THEN 0 - 1 ELSE IF a > 0 THEN 1 ELSE 0

\* floor division and the matching remainder, for a positive divisor
FloorDiv(a, b) == IF a >= 0 THEN a \div b ELSE 0 - ((0 - a + b - 1) \div b)
FloorMod(a, b) == a - b * FloorDiv(a, b)

\* the rational w + num/den (den > 0), normalised to 0 <= n < d
MkRat(w, num, den) ==
    [w |-> w + FloorDiv(num, den), n |-> FloorMod(num, den), d |-> den]
IntRat(a) == [w |-> a, n |-> 0, d |-> 1]
RatMinusInt(r, a) == [r EXCEPT !.w = r.w - a]

\* "{v:.3f}": the nearest thousandth of a value given in ticks (an exact
\* half, which no input of this model produces below zero, goes up)
Fmt3(r) ==
    LET m == FloorDiv(r.w, TicksPerMilli)
        e == FloorMod(r.w, TicksPerMilli)
    IN  IF 2 * e >= TicksPerMilli THEN m + 1 ELSE m

\* Vec2.distance(a, b) > 0.001, on squared lengths
\* (a component longer than the tolerance decides alone, which keeps the
\* squares small)
FartherThanTol(a, b) ==
    LET dx == Abs(a[1] - b[1])
        dy == Abs(a[2] - b[2])
    IN  \/ dx > Tolerance
        \/ dy > Tolerance
        \/ dx * dx + dy * dy > Tolerance * Tolerance

\* math.cos / math.sin of math.radians(a) for the quadrant angles
CosDeg(a) == CASE a = 0 -> 1 [] a = 90 -> 0 [] a = 180 -> 0 - 1 [] a = 270 -> 0
SinDeg(a) == CASE a = 0 -> 0 [] a = 90 -> 1 [] a = 180 -> 0 [] a = 270 -> 0 - 1

\* ----------------------------------------------------------- output lines
Cmd(op, x, y, i, j, n, undef) ==
    [op |-> op, x |-> x, y |-> y, i |-> i, j |-> j, n |-> n, undef |-> undef]
M5 == Cmd("M5", 0, 0, 0, 0, 0, FALSE)
M4(s) == Cmd("M4", 0, 0, 0, 0, s, FALSE)
G0(x, y) == Cmd("G0", x, y, 0, 0, 0, FALSE)
G1(x, y, f) == Cmd("G1", x, y, 0, 0, f, FALSE)
G2(x, y, i, j, f) == Cmd("G2", x, y, i, j, f, FALSE)
G3(x, y, i, j, f) == Cmd("G3", x, y, i, j, f, FALSE)
\* an opaque header or footer block
Text(name) == Cmd(name, 0, 0, 0, 0, 0, FALSE)

IsCut(c) == c.op \in {"G1", "G2", "G3"}
IsRapid(c) == c.op = "G0"
IsMotion(c) == IsCut(c) \/ IsRapid(c)
IsEnergize(c) == c.op \in {"M4", "M5"}
IsProgram(c) == IsMotion(c) \/ IsEnergize(c)

\* -------------------------------------------------- the converter methods
\* A converter value c carries gcode, current_pos, laser_on and raised
\* (an exception is propagating).
Self == [gcode |-> gcode, current_pos |-> current_pos, laser_on |-> laser_on,
         raised |-> FALSE]

\* laser_off leaving the flag set
laser_offKeepsFlag(c) ==
    IF c.laser_on THEN [c EXCEPT !.gcode = Append(@, M5)] ELSE c

laser_off(c) ==
    IF c.laser_on
    THEN [c EXCEPT !.gcode = Append(@, M5), !.laser_on = FALSE]
    ELSE c

laser_on_cmd(c) ==
    IF ~c.laser_on
    THEN [c EXCEPT !.gcode = Append(@, M4(power)), !.laser_on = TRUE]
    ELSE c

\* rapid_move without its laser_off call
rapid_moveNoOff(c, x, y) ==
    [c EXCEPT !.gcode = Append(@, G0(Fmt3(IntRat(x)), Fmt3(IntRat(y)))),
              !.current_pos = <<x, y>>]

\* rapid_move leaving current_pos as it was
rapid_moveNoPos(c, x, y) ==
    LET c1 == laser_off(c)
    IN  [c1 EXCEPT !.gcode = Append(@, G0(Fmt3(IntRat(x)), Fmt3(IntRat(y))))]

rapid_move(c, x, y) ==
    LET c1 == laser_off(c)
    IN  [c1 EXCEPT !.gcode = Append(@, G0(Fmt3(IntRat(x)), Fmt3(IntRat(y)))),
                   !.current_pos = <<x, y>>]

\* linear_move without its laser_on_cmd call
linear_moveNoOn(c, x, y) ==
    [c EXCEPT !.gcode = Append(@, G1(Fmt3(IntRat(x)), Fmt3(IntRat(y)),
                                     feed_rate)),
              !.current_pos = <<x, y>>]

linear_move(c, x, y) ==
    LET c1 == laser_on_cmd(c)
    IN  [c1 EXCEPT !.gcode = Append(@, G1(Fmt3(IntRat(x)), Fmt3(IntRat(y)),
                                          feed_rate)),
                   !.current_pos = <<x, y>>]

\* arc_move taking the offset from the target instead of the current position
arc_moveFromTarget(c, x, y, cx, cy, undef, clockwise) ==
    LET c1 == laser_on_cmd(c)
        i == IF undef THEN 0 ELSE Fmt3(RatMinusInt(cx, x))
        j == IF undef THEN 0 ELSE Fmt3(RatMinusInt(cy, y))
        cmd == IF clockwise THEN "G2" ELSE "G3"
    IN  [c1 EXCEPT !.gcode = Append(@, Cmd(cmd, Fmt3(IntRat(x)),
                                           Fmt3(IntRat(y)), i, j, feed_rate,
                                           undef)),
                   !.current_pos = <<x, y>>]

\* cx, cy are rationals; undef: the centre is not a number
arc_move(c, x, y, cx, cy, undef, clockwise) ==
    LET c1 == laser_on_cmd(c)
        i == IF undef THEN 0 ELSE Fmt3(RatMinusInt(cx, c1.current_pos[1]))
        j == IF undef THEN 0 ELSE Fmt3(RatMinusInt(cy, c1.current_pos[2]))
        cmd == IF clockwise THEN "G2" ELSE "G3"
    IN  [c1 EXCEPT !.gcode = Append(@, Cmd(cmd, Fmt3(IntRat(x)),
                                           Fmt3(IntRat(y)), i, j, feed_rate,
                                           undef)),
                   !.current_pos = <<x, y>>]

\* process_line repositioning without the distance test
process_lineAlwaysRapid(c, entity) ==
    linear_move(rapid_move(c, entity.start[1], entity.start[2]),
                entity.end[1], entity.end[2])

process_line(c, entity) ==
    LET start == entity.start
        end == entity.end
        c1 == IF FartherThanTol(c.current_pos, start)
              THEN rapid_move(c, start[1], start[2])
              ELSE c
    IN  linear_move(c1, end[1], end[2])

process_circle(c, entity) ==
    LET center == entity.center
        radius == entity.radius
        start_x == center[1] + radius
        start_y == center[2]
        c1 == rapid_move(c, start_x, start_y)
        c2 == arc_move(c1, center[1] - radius, center[2],
                       IntRat(center[1]), IntRat(center[2]), FALSE, TRUE)
    IN  arc_move(c2, start_x, start_y,
                 IntRat(center[1]), IntRat(center[2]), FALSE, TRUE)

process_arc(c, entity) ==
    LET center == entity.center
        radius == entity.radius
        start_x == center[1] + radius * CosDeg(entity.start_angle)
        start_y == center[2] + radius * SinDeg(entity.start_angle)
        end_x == center[1] + radius * CosDeg(entity.end_angle)
        end_y == center[2] + radius * SinDeg(entity.end_angle)
        c1 == IF FartherThanTol(c.current_pos, <<start_x, start_y>>)
              THEN rapid_move(c, start_x, start_y)
              ELSE c
    IN  arc_move(c1, end_x, end_y, IntRat(center[1]), IntRat(center[2]),
                 FALSE, FALSE)

\* the bulge test with <= in place of <
BulgeIsStraightLe(b) == Abs(b.n) * BulgeTolDen <= b.d

\* abs(bulge) < 0.001, the bulge being the fraction b.n / b.d
BulgeIsStraight(b) == Abs(b.n) * BulgeTolDen < b.d

\* the centre taken from the sum of the end points, not from their middle
BulgeCenterNoHalf(p1, p2, b) ==
    LET dx == p2[1] - p1[1]
        dy == p2[2] - p1[2]
        s == Sign(b.n)
        D == 4 * Abs(b.n) * b.d
        K == b.d * b.d - b.n * b.n
        W == FloorDiv(K, D)
        R == FloorMod(K, D)
    IN  [x |-> MkRat(0 - s * dy * W, (p1[1] + p2[1]) * D - s * dy * R, D),
         y |-> MkRat(s * dx * W, (p1[2] + p2[2]) * D + s * dx * R, D)]

\* mid + perp * h of lines 121-127, where
\* perp * h = (-dy, dx) * (1 - bulge^2) / (4 * bulge)
BulgeCenter(p1, p2, b) ==
    LET dx == p2[1] - p1[1]
        dy == p2[2] - p1[2]
        s == Sign(b.n)
        D == 4 * Abs(b.n) * b.d
        K == b.d * b.d - b.n * b.n
        W == FloorDiv(K, D)
        R == FloorMod(K, D)
    IN  [x |-> MkRat(0 - s * dy * W,
                     (p1[1] + p2[1]) * (D \div 2) - s * dy * R, D),
         y |-> MkRat(s * dx * W,
                     (p1[2] + p2[2]) * (D \div 2) + s * dx * R, D)]

\* the loop body cutting to the vertex itself instead of its successor
PolyEdgeToSelf(c, points, is_closed, i, zdiv_raises) ==
    LET bulge == points[i][5]
        p1 == <<points[i][1], points[i][2]>>
    IN  IF BulgeIsStraight(bulge)
        THEN linear_move(c, p1[1], p1[2])
        ELSE IF zdiv_raises
             THEN [c EXCEPT !.raised = TRUE]
             ELSE arc_move(c, p1[1], p1[2], IntRat(0), IntRat(0), TRUE,
                           bulge.n < 0)

\* one pass of the loop body of process_lwpolyline (lines 111-128), i being
\* the 1-based index of the vertex; zdiv_raises: whether normalising the
\* zero vector raises ZeroDivisionError or yields not-a-number
PolyEdge(c, points, is_closed, i, zdiv_raises) ==
    LET next_i == (i % Len(points)) + 1
        bulge == IF i = 1 THEN points[1][5] ELSE points[i][5]
        next_point == points[next_i]
        p1 == <<points[i][1], points[i][2]>>
        p2 == <<next_point[1], next_point[2]>>
    IN  IF BulgeIsStraight(bulge)
        THEN linear_move(c, next_point[1], next_point[2])
        ELSE IF p1 = p2
             THEN IF zdiv_raises
                  THEN [c EXCEPT !.raised = TRUE]
                  ELSE arc_move(c, p2[1], p2[2], IntRat(0), IntRat(0), TRUE,
                                bulge.n < 0)
             ELSE LET center == BulgeCenter(p1, p2, bulge)
                  IN  arc_move(c, p2[1], p2[2], center.x, center.y, FALSE,
                               bulge.n < 0)

RECURSIVE PolyLoop(_, _, _, _, _)
PolyLoop(c, points, is_closed, i, zdiv_raises) ==
    IF i > Len(points) \/ c.raised
    THEN c
    ELSE IF (i % Len(points)) + 1 = 1 /\ ~is_closed
         THEN c
         ELSE PolyLoop(PolyEdge(c, points, is_closed, i, zdiv_raises),
                       points, is_closed, i + 1, zdiv_raises)

\* process_lwpolyline repositioning only when the first vertex is away
process_lwpolylineIfFar(c, entity, zdiv_raises) ==
    LET points == entity.points
    IN  IF points = <<>>
        THEN c
        ELSE LET first == points[1]
                 c1 == IF FartherThanTol(c.current_pos, <<first[1], first[2]>>)
                       THEN rapid_move(c, first[1], first[2])
                       ELSE c
             IN  PolyLoop(c1, points, entity.is_closed, 1, zdiv_raises)

process_lwpolyline(c, entity, zdiv_raises) ==
    LET points == entity.points
    IN  IF points = <<>>
        THEN c
        ELSE LET first == points[1]
                 c1 == rapid_move(c, first[1], first[2])
             IN  PolyLoop(c1, points, entity.is_closed, 1, zdiv_raises)

\* the dispatch of process_dxf, lines 142-154
process_entity(c, entity, zdiv_raises) ==
    CASE entity.type = "LINE" -> process_line(c, entity)
      [] entity.type = "CIRCLE" -> process_circle(c, entity)
      [] entity.type = "ARC" -> process_arc(c, entity)
      [] entity.type = "LWPOLYLINE" ->
            process_lwpolyline(c, entity, zdiv_raises)
      [] OTHER -> c

\* a converter as __init__ leaves it
NewConverter == [gcode |-> <<>>, current_pos |-> <<0, 0>>,
                 laser_on |-> FALSE, raised |-> FALSE]

RECURSIVE RunEntities(_, _, _)
\* the loop of process_dxf over the first n entities, none of them raising
RunEntities(c, es, n) ==
    IF n = 0 THEN c
    ELSE process_entity(RunEntities(c, es, n - 1), es[n], FALSE)

\* the commands of a whole process_dxf call on a new converter
Convert(es) == laser_off(RunEntities(NewConverter, es, Len(es))).gcode

\* ------------------------------------------------------------- the inputs
Entity(type, start, end, center, radius, sa, ea, points, closed) ==
    [type |-> type, start |-> start, end |-> end, center |-> center,
     radius |-> radius, start_angle |-> sa, end_angle |-> ea,
     points |-> points, is_closed |-> closed]

Line(start, end) ==
    Entity("LINE", start, end, <<0, 0>>, 0, 0, 0, <<>>, FALSE)
Circle(center, radius) ==
    Entity("CIRCLE", <<0, 0>>, <<0, 0>>, center, radius, 0, 0, <<>>, FALSE)
Arc(center, radius, sa, ea) ==
    Entity("ARC", <<0, 0>>, <<0, 0>>, center, radius, sa, ea, <<>>, FALSE)
Polyline(points, closed) ==
    Entity("LWPOLYLINE", <<0, 0>>, <<0, 0>>, <<0, 0>>, 0, 0, 0, points, closed)
Other(type) ==
    Entity(type, <<0, 0>>, <<0, 0>>, <<0, 0>>, 0, 0, 0, <<>>, FALSE)

\* a polyline vertex in ezdxf's (x, y, start_width, end_width, bulge) layout
Vertex(x, y, bn, bd) == <<x, y, 0, 0, [n |-> bn, d |-> bd]>>

LinePoints == {<<0, 0>>, <<6, 0>>, <<100000, 0>>, <<80000, 50000>>}
Lines == {Line(s, e) : s \in LinePoints, e \in {<<100000, 0>>, <<80000, 50000>>}}
Circles == {Circle(<<50000, 50000>>, 30000), Circle(<<0 - 30000, 0>>, 30000)}
Arcs == {Arc(<<50000, 50000>>, 30000, 0, 180),
         Arc(<<50000, 50000>>, 30000, 180, 0),
         Arc(<<0, 30004>>, 30004, 270, 90)}
Vertices == {Vertex(0, 0, 0, 1), Vertex(100000, 0, 1, 2000),
             Vertex(100000, 0, 0 - 1, 1), Vertex(50000, 20000, 1, 1000),
             Vertex(0, 0, 1, 1)}
SeqsUpTo(S, n) == UNION {[1..k -> S] : k \in 0..n}
Polylines == {Polyline(ps, cl) : ps \in SeqsUpTo(Vertices, MaxVerts),
                                 cl \in BOOLEAN}
SomePolylines ==
    {Polyline(<<>>, FALSE),
     Polyline(<<Vertex(0, 0, 0, 1), Vertex(100000, 0, 0, 1)>>, FALSE),
     Polyline(<<Vertex(100000, 0, 1, 1), Vertex(0, 0, 0 - 1, 1)>>, TRUE),
     Polyline(<<Vertex(0, 0, 1, 1)>>, TRUE)}
Others == {Other("SPLINE")}
BasicEntities == Lines \cup Circles \cup Arcs \cup SomePolylines \cup Others
\* entities that leave the tool on (0,0) or (100000,0), or start there
Neighbours == {Line(<<100000, 0>>, <<0, 0>>), Line(<<0, 0>>, <<100000, 0>>)}

\* the drawings read: every short drawing of basic entities, and every
\* polyline alone, after and before a line
Drawings ==
    SeqsUpTo(BasicEntities, MaxEntities)
      \cup {<<p>> : p \in Polylines}
      \cup {<<l, p>> : l \in Neighbours, p \in Polylines}
      \cup {<<p, l>> : l \in Neighbours, p \in Polylines}

\* ---------------------------------------------------------------- actions
NoPrev == [has |-> FALSE, msp |-> <<>>, out |-> <<>>]
NoArc == [p1 |-> <<0, 0>>, p2 |-> <<0, 0>>, bulge |-> [n |-> 0, d |-> 1],
          done |-> FALSE,
          center |-> [x |-> IntRat(0), y |-> IntRat(0)],
          radius_sq |-> [num |-> 0, den |-> 1],
          clockwise |-> FALSE]

\* a process that has just constructed its converter (line 188, __init__)
Fresh ==
    /\ pc = "main"
    /\ msp = <<>>
    /\ doc = "none"
    /\ idx = 1
    /\ gcode = <<>>
    /\ current_pos = <<0, 0>>
    /\ laser_on = FALSE
    /\ entity_count = 0
    /\ outfile = <<>>

\* the uploader is not running
UploadIdle ==
    /\ u_pc = "idle"
    /\ u_use_sd = TRUE
    /\ u_files = <<>>
    /\ u_idx = 1
    /\ u_log = <<>>
    /\ u_rets = <<>>
    /\ u_success = TRUE

Init ==
    /\ Fresh
    /\ prev = NoPrev
    /\ arc = NoArc
    /\ UploadIdle

\* what a step of one conversion run leaves alone
KeepRun == UNCHANGED <<prev, arc, uploadVars>>
Keep == UNCHANGED doc /\ KeepRun

Update(c) ==
    /\ gcode' = c.gcode
    /\ current_pos' = c.current_pos
    /\ laser_on' = c.laser_on

\* main, lines 190-191: add_header when a header is asked for
AddHeader ==
    /\ pc = "main"
    /\ \E exists \in BOOLEAN :
          gcode' = IF exists THEN Append(gcode, Text("header")) ELSE gcode
    /\ pc' = "convert"
    /\ UNCHANGED <<msp, idx, current_pos, laser_on, entity_count, outfile>> /\ Keep

\* main, line 190: no header asked for
NoHeader ==
    /\ pc = "main"
    /\ pc' = "convert"
    /\ UNCHANGED <<msp, idx, gcode, current_pos, laser_on, entity_count, outfile>> /\ Keep

\* main going on to the footer although process_dxf returned False
ReadFailIgnored ==
    /\ pc = "convert"
    /\ doc' = "error"
    /\ pc' = "converted"
    /\ UNCHANGED <<msp, idx, gcode, current_pos, laser_on, entity_count, outfile>>
    /\ KeepRun

\* process_dxf, lines 132-136: the file cannot be read
ReadFail ==
    /\ pc = "convert"
    /\ doc' = "error"
    /\ pc' = "failed"
    /\ UNCHANGED <<msp, idx, gcode, current_pos, laser_on, entity_count, outfile>>
    /\ KeepRun

\* process_dxf, lines 132-139: the file is read
ReadOk ==
    /\ pc = "convert"
    /\ IF prev.has THEN msp' = prev.msp ELSE \E es \in Drawings : msp' = es
    /\ doc' = "ok"
    /\ idx' = 1
    /\ entity_count' = 0
    /\ pc' = "loop"
    /\ UNCHANGED <<gcode, current_pos, laser_on, outfile>>
    /\ KeepRun

AtEntity(type) ==
    /\ pc = "loop"
    /\ idx <= Len(msp)
    /\ msp[idx].type = type

Advance ==
    /\ idx' = idx + 1
    /\ entity_count' = entity_count + 1
    /\ pc' = "loop"
    /\ UNCHANGED <<msp, outfile>> /\ Keep

ProcessLine ==
    /\ AtEntity("LINE")
    /\ Update(process_line(Self, msp[idx]))
    /\ Advance

ProcessCircle ==
    /\ AtEntity("CIRCLE")
    /\ Update(process_circle(Self, msp[idx]))
    /\ Advance

ProcessArc ==
    /\ AtEntity("ARC")
    /\ Update(process_arc(Self, msp[idx]))
    /\ Advance

ProcessLwpolyline ==
    /\ AtEntity("LWPOLYLINE")
    /\ \E zdiv_raises \in BOOLEAN :
          LET c == process_lwpolyline(Self, msp[idx], zdiv_raises)
          IN  /\ Update(c)
              /\ IF c.raised
                 THEN /\ pc' = "crashed"
                      /\ UNCHANGED <<msp, idx, entity_count, outfile>> /\ Keep
                 ELSE Advance

\* the loop ending at the first entity of another type
SkipEntityBreak ==
    /\ pc = "loop"
    /\ idx <= Len(msp)
    /\ msp[idx].type \notin {"LINE", "CIRCLE", "ARC", "LWPOLYLINE"}
    /\ idx' = Len(msp) + 1
    /\ UNCHANGED <<pc, msp, gcode, current_pos, laser_on, entity_count, outfile>> /\ Keep

\* process_dxf, lines 141-154: no branch matches the entity's type
SkipEntity ==
    /\ pc = "loop"
    /\ idx <= Len(msp)
    /\ msp[idx].type \notin {"LINE", "CIRCLE", "ARC", "LWPOLYLINE"}
    /\ idx' = idx + 1
    /\ UNCHANGED <<pc, msp, gcode, current_pos, laser_on, entity_count, outfile>> /\ Keep

\* process_dxf returning without its laser_off call
FinishNoOff ==
    /\ pc = "loop"
    /\ idx > Len(msp)
    /\ pc' = "converted"
    /\ UNCHANGED <<msp, idx, gcode, current_pos, laser_on, entity_count, outfile>> /\ Keep

\* process_dxf appending one more M5 after its laser_off call
FinishExtraM5 ==
    /\ pc = "loop"
    /\ idx > Len(msp)
    /\ gcode' = Append(laser_off(Self).gcode, M5)
    /\ current_pos' = current_pos
    /\ laser_on' = FALSE
    /\ pc' = "converted"
    /\ UNCHANGED <<msp, idx, entity_count, outfile>> /\ Keep

\* process_dxf, lines 156-158: the loop is over
Finish ==
    /\ pc = "loop"
    /\ idx > Len(msp)
    /\ Update(laser_off(Self))
    /\ pc' = "converted"
    /\ UNCHANGED <<msp, idx, entity_count, outfile>> /\ Keep

\* main, lines 197-198
AddFooter ==
    /\ pc = "converted"
    /\ \E exists \in BOOLEAN :
          gcode' = IF exists THEN Append(gcode, Text("footer")) ELSE gcode
    /\ pc' = "save"
    /\ UNCHANGED <<msp, idx, current_pos, laser_on, entity_count, outfile>> /\ Keep

NoFooter ==
    /\ pc = "converted"
    /\ pc' = "save"
    /\ UNCHANGED <<msp, idx, gcode, current_pos, laser_on, entity_count, outfile>> /\ Keep

\* main, line 200
SaveGcode ==
    /\ pc = "save"
    /\ outfile' = gcode
    /\ pc' = "saved"
    /\ UNCHANGED <<msp, idx, gcode, current_pos, laser_on, entity_count>> /\ Keep

Ended == pc \in {"saved", "failed", "crashed"}

\* the state a new process starts with: main constructs its own converter
StartRun ==
    /\ pc' = "main"
    /\ msp' = <<>>
    /\ doc' = "none"
    /\ idx' = 1
    /\ gcode' = <<>>
    /\ current_pos' = <<0, 0>>
    /\ laser_on' = FALSE
    /\ entity_count' = 0
    /\ outfile' = <<>>

\* the program is started again, on any drawing
NewRun ==
    /\ Ended
    /\ StartRun
    /\ prev' = NoPrev
    /\ UNCHANGED <<arc, uploadVars>>

\* a second run that goes on with the command list of the first
ReRunKeepsGcode ==
    /\ pc = "saved"
    /\ pc' = "main"
    /\ msp' = <<>>
    /\ doc' = "none"
    /\ idx' = 1
    /\ current_pos' = <<0, 0>>
    /\ laser_on' = FALSE
    /\ entity_count' = 0
    /\ outfile' = <<>>
    /\ prev' = [has |-> TRUE, msp |-> msp, out |-> SelectSeq(outfile, IsProgram)]
    /\ UNCHANGED <<gcode, arc, uploadVars>>

\* a second run that goes on from the tool position of the first
ReRunKeepsPosition ==
    /\ pc = "saved"
    /\ pc' = "main"
    /\ msp' = <<>>
    /\ doc' = "none"
    /\ idx' = 1
    /\ gcode' = <<>>
    /\ laser_on' = FALSE
    /\ entity_count' = 0
    /\ outfile' = <<>>
    /\ prev' = [has |-> TRUE, msp |-> msp, out |-> SelectSeq(outfile, IsProgram)]
    /\ UNCHANGED <<current_pos, arc, uploadVars>>

\* the program is started again on the drawing it has just converted; prev
\* keeps that drawing and the commands the finished run wrote
ReRun ==
    /\ pc = "saved"
    /\ StartRun
    /\ prev' = [has |-> TRUE, msp |-> msp, out |-> SelectSeq(outfile, IsProgram)]
    /\ UNCHANGED <<arc, uploadVars>>

Next ==
    \/ NewRun
    \/ ReRun
    \/ AddHeader
    \/ NoHeader
    \/ ReadFail
    \/ ReadOk
    \/ ProcessLine
    \/ ProcessCircle
    \/ ProcessArc
    \/ ProcessLwpolyline
    \/ SkipEntity
    \/ Finish
    \/ AddFooter
    \/ NoFooter
    \/ SaveGcode

Spec == Init /\ [][Next]_vars

TypeOK ==
    /\ pc \in {"main", "convert", "failed", "loop", "crashed", "converted",
               "save", "saved"}
    /\ doc \in {"none", "ok", "error"}
    /\ laser_on \in BOOLEAN
    /\ idx \in 1..(Len(msp) + 1)

\* ------------------------------------------------- reading the output back

\* the commands process_dxf emitted, without header and footer blocks
Program(seq) == SelectSeq(seq, IsProgram)
CutsOf(seq) == SelectSeq(seq, IsCut)

\* the commands appended by the step being taken
Appended == SubSeq(gcode', Len(gcode) + 1, Len(gcode'))

SetMax(S) == CHOOSE m \in S : \A o \in S : o <= m

\* the last M4 / M5 before position k of seq, "none" if there is none
LastEnergizeBefore(seq, k) ==
    LET S == {j \in 1..(k - 1) : IsEnergize(seq[j])}
    IN  IF S = {} THEN "none" ELSE seq[SetMax(S)].op

Returned == pc \in {"converted", "save", "saved"}

\* C1: every G0 in the output is emitted with the tool de-energized: the
\* last M4 / M5 before it is an M5, or there is none, and in every state the
\* flag laser_on is false right after the G0 was appended.
C1_RapidDeenergized ==
    \A k \in 1..Len(gcode) :
        IsRapid(gcode[k]) =>
            /\ LastEnergizeBefore(gcode, k) # "M4"
            /\ (k = Len(gcode) => ~laser_on)

\* a rapid emitted after the tool had been energized
C1_Witness ==
    \E k \in 1..Len(gcode) :
        /\ IsRapid(gcode[k])
        /\ \E j \in 1..(k - 1) : gcode[j].op = "M4"

\* C2: once process_dxf has returned, the tool is de-energized: laser_on is
\* false and the last M4 / M5 of the output, if any, is an M5.
C2_EndsDeenergized ==
    Returned =>
        /\ ~laser_on
        /\ LastEnergizeBefore(gcode, Len(gcode) + 1) # "M4"

\* process_dxf has returned after a drawing that ends with a cut
C2_Witness ==
    /\ pc = "converted"
    /\ Len(gcode) >= 2
    /\ gcode[Len(gcode)].op = "M5"
    /\ IsCut(gcode[Len(gcode) - 1])

\* C3: between two M4 of the output there is a cut or a rapid, and between
\* two M5 as well.
C3_NoDoubleEnergize ==
    \A j, k \in 1..Len(gcode) :
        (j < k /\ IsEnergize(gcode[j]) /\ gcode[j].op = gcode[k].op) =>
            \E m \in (j + 1)..(k - 1) : IsMotion(gcode[m])

\* an output with two M4 and two M5
C3_Witness ==
    /\ \E j, k \in 1..Len(gcode) :
          j < k /\ gcode[j].op = "M4" /\ gcode[k].op = "M4"
    /\ \E j, k \in 1..Len(gcode) :
          j < k /\ gcode[j].op = "M5" /\ gcode[k].op = "M5"

\* ------------------------------------------------ the segments of an entity
\* the start point of the first segment of an entity
StartOf(e) ==
    CASE e.type = "LINE" -> e.start
      [] e.type = "CIRCLE" -> <<e.center[1] + e.radius, e.center[2]>>
      [] e.type = "ARC" ->
            <<e.center[1] + e.radius * CosDeg(e.start_angle),
              e.center[2] + e.radius * SinDeg(e.start_angle)>>
      [] e.type = "LWPOLYLINE" -> <<e.points[1][1], e.points[1][2]>>

\* the number of vertex pairs of a polyline
NumPairs(e) ==
    IF e.points = <<>> THEN 0
    ELSE IF e.is_closed THEN Len(e.points) ELSE Len(e.points) - 1

\* the end points of the segments of an entity, in order
SegEnds(e) ==
    CASE e.type = "LINE" -> <<e.end>>
      [] e.type = "CIRCLE" ->
            << <<e.center[1] - e.radius, e.center[2]>>,
               <<e.center[1] + e.radius, e.center[2]>> >>
      [] e.type = "ARC" ->
            << <<e.center[1] + e.radius * CosDeg(e.end_angle),
                 e.center[2] + e.radius * SinDeg(e.end_angle)>> >>
      [] e.type = "LWPOLYLINE" ->
            [k \in 1..NumPairs(e) |->
                LET v == e.points[(k % Len(e.points)) + 1]
                IN  <<v[1], v[2]>>]
      [] OTHER -> <<>>

HasSegment(e) == SegEnds(e) # <<>>

\* an entity is being processed from a position within the tolerance of the
\* start of its first segment
ContinuesAt(e) == HasSegment(e) /\ ~FartherThanTol(current_pos, StartOf(e))

\* C4: a step that processes an entity whose first segment starts within
\* 1e-3 of the current tool position appends no M5 and no G0 (as stated;
\* process_circle and process_lwpolyline reposition unconditionally).
C4_RepositionOnlyIfFar ==
    [][(pc = "loop" /\ idx <= Len(msp) /\ ContinuesAt(msp[idx])) =>
         \A k \in 1..Len(Appended) :
             ~IsRapid(Appended[k]) /\ Appended[k].op # "M5"]_vars

RECURSIVE EndsUpTo(_, _)
\* the segment ends of the first n entities of a drawing
EndsUpTo(es, n) ==
    IF n = 0 THEN <<>> ELSE EndsUpTo(es, n - 1) \o SegEnds(es[n])

\* the printed target of each cut of the output, in order
CutTargets(seq) ==
    LET cuts == CutsOf(seq)
    IN  [k \in 1..Len(cuts) |-> <<cuts[k].x, cuts[k].y>>]

\* the segment ends as they are printed
Printed(ends) ==
    [k \in 1..Len(ends) |->
        <<Fmt3(IntRat(ends[k][1])), Fmt3(IntRat(ends[k][2]))>>]

IsPrefix(a, b) == Len(a) <= Len(b) /\ a = SubSeq(b, 1, Len(a))

\* C5: the cuts of the output are, in order, the segments of the entities
\* processed so far: the k-th cut ends at the end of the k-th segment, and
\* none is missing or repeated.  While an exception unwinds, the cuts are a
\* prefix of the segments up to the entity that raised.
C5_CutOrderMirrorsInput ==
    /\ (pc \in {"loop", "converted", "save", "saved"}) =>
          CutTargets(gcode) = Printed(EndsUpTo(msp, idx - 1))
    /\ pc = "crashed" =>
          IsPrefix(CutTargets(gcode), Printed(EndsUpTo(msp, idx)))

\* a drawing of two entities converted into at least three cuts
C5_Witness ==
    /\ pc = "converted"
    /\ Len(msp) = 2
    /\ Len(CutsOf(gcode)) >= 3
    /\ \E j, k \in 1..Len(CutsOf(gcode)) :
          <<CutsOf(gcode)[j].x, CutsOf(gcode)[j].y>>
              # <<CutsOf(gcode)[k].x, CutsOf(gcode)[k].y>>

TheLine == Line(<<0, 0>>, <<100000, 0>>)

\* C6 as stated: the line from (0,0) to (10,0), alone, converts to exactly
\* [M4, G1 X10 Y0].
C6_LineExample ==
    (Returned /\ msp = <<TheLine>>) =>
        Program(gcode) = <<M4(power), G1(10000, 0, feed_rate)>>

\* C6 as amended: the line from (0,0) to (10,0), alone, converts to exactly
\* [M4, G1 X10 Y0, M5], without any G0.
C6_LineExampleWithOff ==
    (Returned /\ msp = <<TheLine>>) =>
        Program(gcode) = <<M4(power), G1(10000, 0, feed_rate), M5>>

C6_Witness == pc = "converted" /\ msp = <<TheLine>> /\ Len(gcode) = 3

TheCircle == Circle(<<50000, 50000>>, 30000)

\* C7: a step that processes a circle appends exactly two cuts, both G2: one
\* to (cx - r, cy) with offset (-r, 0), then one to (cx + r, cy) with offset
\* (r, 0); and the circle of centre (5,5) and radius 3, alone, converts to
\* exactly [G0 X8 Y5, M4, G2 X2 Y5 I-3 J0, G2 X8 Y5 I3 J0, M5].
C7_Circle ==
    /\ [](Returned /\ msp = <<TheCircle>> =>
            Program(gcode) = <<G0(8000, 5000), M4(power),
                               G2(2000, 5000, 0 - 3000, 0, feed_rate),
                               G2(8000, 5000, 3000, 0, feed_rate), M5>>)
    /\ [][(pc = "loop" /\ idx <= Len(msp) /\ msp[idx].type = "CIRCLE") =>
            LET e == msp[idx]
                r == Fmt3(IntRat(e.radius))
            IN  CutsOf(Appended) =
                  <<G2(Fmt3(IntRat(e.center[1] - e.radius)),
                       Fmt3(IntRat(e.center[2])), 0 - r, 0, feed_rate),
                    G2(Fmt3(IntRat(e.center[1] + e.radius)),
                       Fmt3(IntRat(e.center[2])), r, 0, feed_rate)>>]_vars

C7_Witness == pc = "converted" /\ msp = <<TheCircle>> /\ Len(gcode) = 5

\* a step that processes a polyline of at least one vertex
AtPolyline ==
    /\ pc = "loop"
    /\ idx <= Len(msp)
    /\ msp[idx].type = "LWPOLYLINE"
    /\ msp[idx].points # <<>>

\* the k-th vertex pair of a polyline
PairOf(e, k) ==
    LET a == e.points[k]
        b == e.points[(k % Len(e.points)) + 1]
    IN  << <<a[1], a[2]>>, <<b[1], b[2]>> >>

\* C8: a step that processes a polyline of N >= 1 vertices appends exactly N
\* cuts when the polyline is closed and N - 1 when it is open (as stated;
\* the step raises on a coincident pair with a bulge of 1e-3 or more).
C8_PolylineCutCount ==
    [][AtPolyline => Len(CutsOf(Appended)) = NumPairs(msp[idx])]_vars

\* C9: a step that processes a polyline appends no cut for a vertex pair
\* whose two points coincide, and one cut for each other pair (as stated;
\* the code has no such test).
C9_CoincidentPairSkipped ==
    [][AtPolyline =>
         Len(CutsOf(Appended)) =
             Cardinality({k \in 1..NumPairs(msp[idx]) :
                             PairOf(msp[idx], k)[1] # PairOf(msp[idx], k)[2]})
      ]_vars

\* the cut the bulge b asks for
KindOf(b) ==
    IF Abs(b.n) * 1000 < b.d THEN "G1"
    ELSE IF b.n < 0 THEN "G2" ELSE "G3"

\* C10: in a step that processes a polyline, the k-th cut appended is the
\* one the bulge of the k-th vertex asks for: G1 below 1e-3 in absolute
\* value, else G2 when negative and G3 when positive; and its target is the
\* successor of the k-th vertex.
C10_EdgeKindByBulge ==
    [][AtPolyline =>
         \A k \in 1..Len(CutsOf(Appended)) :
            /\ k <= NumPairs(msp[idx])
            /\ CutsOf(Appended)[k].op = KindOf(msp[idx].points[k][5])
            /\ CutsOf(Appended)[k].x = Fmt3(IntRat(PairOf(msp[idx], k)[2][1]))
            /\ CutsOf(Appended)[k].y = Fmt3(IntRat(PairOf(msp[idx], k)[2][2]))
      ]_vars

\* a single polyline converted into a line cut, a clockwise and a
\* counterclockwise arc cut
C10_Witness ==
    /\ pc = "converted"
    /\ Len(msp) = 1
    /\ msp[1].type = "LWPOLYLINE"
    /\ \A o \in {"G1", "G2", "G3"} :
          \E k \in 1..Len(gcode) : gcode[k].op = o /\ ~gcode[k].undef

IsSupported(e) == e.type \in {"LINE", "CIRCLE", "ARC", "LWPOLYLINE"}

\* C11: a step on an entity of another type than LINE, CIRCLE, ARC and
\* LWPOLYLINE appends nothing, keeps position and energization and goes on
\* with the loop; and the commands of a returned conversion are those of
\* converting the drawing without such entities.
C11_UnsupportedSkipped ==
    /\ [](Returned => Program(gcode) = Convert(SelectSeq(msp, IsSupported)))
    /\ [][(pc = "loop" /\ idx <= Len(msp) /\ ~IsSupported(msp[idx])) =>
            /\ pc' = "loop"
            /\ idx' = idx + 1
            /\ UNCHANGED <<gcode, current_pos, laser_on>>]_vars

\* a returned conversion of an unsupported entity followed by a supported one
C11_Witness ==
    /\ pc = "converted"
    /\ Len(msp) = 2
    /\ ~IsSupported(msp[1])
    /\ IsSupported(msp[2])
    /\ Len(Program(gcode)) >= 3

\* C12: when the drawing cannot be read, process_dxf changes neither the
\* command list nor the tool state, no motion command has been emitted, and
\* main stops (exit status 1) without writing its output file.
C12_ReadFailureAborts ==
    /\ [](doc = "error" =>
            /\ pc = "failed"
            /\ Program(gcode) = <<>>
            /\ current_pos = <<0, 0>>
            /\ ~laser_on
            /\ outfile = <<>>)
    /\ [][doc' = "error" => UNCHANGED <<gcode, current_pos, laser_on>>]_vars

\* the read failed after a header had been put on the command list
C12_Witness == doc = "error" /\ pc = "failed" /\ gcode # <<>>

C17_CutsEnergized ==
    \A k \in 1..Len(gcode) :
        IsCut(gcode[k]) =>
            /\ LastEnergizeBefore(gcode, k) = "M4"
            /\ (k = Len(gcode) => laser_on)

\* a cut emitted after the tool had been switched off and on again
C17_Witness ==
    \E k \in 1..Len(gcode) :
        /\ IsCut(gcode[k])
        /\ \E j \in 1..(k - 1) : gcode[j].op = "M5"

\* the centre of each segment of an entity (of no use for a straight one)
Centers(e) ==
    LET c == [x |-> IntRat(e.center[1]), y |-> IntRat(e.center[2])]
    IN  CASE e.type = "CIRCLE" -> <<c, c>>
          [] e.type = "LWPOLYLINE" ->
                [k \in 1..NumPairs(e) |->
                    IF PairOf(e, k)[1] = PairOf(e, k)[2]
                       \/ e.points[k][5].n = 0
                    THEN c
                    ELSE BulgeCenter(PairOf(e, k)[1], PairOf(e, k)[2],
                                     e.points[k][5])]
          [] OTHER -> <<c>>

\* C18: in a step that processes an entity, every motion appended goes to
\* its target (the start of the entity for a rapid, the end of the segment
\* for a cut), the offset of every arc cut is its centre minus the position
\* held before it, which is the target of the motion before it or else the
\* position the step started from, and the step leaves the position on the
\* target of its last motion.
C18_OffsetFromPosition ==
    [][(pc = "loop" /\ idx <= Len(msp) /\ IsSupported(msp[idx])) =>
         LET e == msp[idx]
             motions == SelectSeq(Appended, IsMotion)
             r == IF motions # <<>> /\ IsRapid(motions[1]) THEN 1 ELSE 0
             tgts == IF r = 1 THEN <<StartOf(e)>> \o SegEnds(e)
                     ELSE SegEnds(e)
         IN  /\ Len(motions) <= Len(tgts)
             /\ \A m \in 1..Len(motions) :
                   LET before == IF m = 1 THEN current_pos ELSE tgts[m - 1]
                       cmd == motions[m]
                   IN  /\ cmd.x = Fmt3(IntRat(tgts[m][1]))
                       /\ cmd.y = Fmt3(IntRat(tgts[m][2]))
                       /\ (cmd.op \in {"G2", "G3"} /\ ~cmd.undef) =>
                             /\ cmd.i = Fmt3(RatMinusInt(Centers(e)[m - r].x,
                                                         before[1]))
                             /\ cmd.j = Fmt3(RatMinusInt(Centers(e)[m - r].y,
                                                         before[2]))
             /\ motions # <<>> => current_pos' = tgts[Len(motions)]
             /\ motions = <<>> => current_pos' = current_pos]_vars

\* a returned conversion with an arc cut whose centre is off both axes of
\* the position it starts from
C18_Witness ==
    /\ pc = "converted"
    /\ \E k \in 1..Len(gcode) :
          /\ gcode[k].op \in {"G2", "G3"}
          /\ ~gcode[k].undef
          /\ gcode[k].i # 0
          /\ gcode[k].j # 0

\* C19: laser_on is true exactly when the last M4 / M5 on the command list
\* is an M4, and the M4 and M5 of the list alternate, the first being an M4.
C19_FlagAgreesWithOutput ==
    LET E == SelectSeq(gcode, IsEnergize)
    IN  /\ laser_on = (LastEnergizeBefore(gcode, Len(gcode) + 1) = "M4")
        /\ \A k \in 1..Len(E) :
              E[k].op = IF k % 2 = 1 THEN "M4" ELSE "M5"

\* the tool is energized for the second time
C19_Witness ==
    /\ laser_on
    /\ \E k \in 1..Len(gcode) : gcode[k].op = "M5"

\* C20: a step that processes a polyline without vertices appends nothing
\* and keeps position and energization; one that processes a polyline with
\* vertices appends exactly one G0, to the first vertex, preceded by nothing
\* but an M5, and after it only an M4 and cuts.
C20_PolylineOneRapid ==
    [][(pc = "loop" /\ idx <= Len(msp) /\ msp[idx].type = "LWPOLYLINE") =>
         LET e == msp[idx]
             A == Appended
             g == {k \in 1..Len(A) : IsRapid(A[k])}
         IN  IF e.points = <<>>
             THEN /\ A = <<>>
                  /\ UNCHANGED <<current_pos, laser_on>>
             ELSE /\ Cardinality(g) = 1
                  /\ \A k \in g :
                        /\ A[k] = G0(Fmt3(IntRat(e.points[1][1])),
                                     Fmt3(IntRat(e.points[1][2])))
                        /\ k <= 2
                        /\ (k = 2 => A[1].op = "M5" /\ laser_on)
                        /\ (k = 1 => ~laser_on)
                        /\ \A m \in (k + 1)..Len(A) :
                              /\ IsCut(A[m]) \/ (A[m].op = "M4" /\ m = k + 1)
                  /\ (CutsOf(A) # <<>> => laser_on')]_vars

\* a polyline alone converted into three cuts
C20_Witness ==
    /\ pc = "converted"
    /\ Len(msp) = 1
    /\ msp[1].type = "LWPOLYLINE"
    /\ Len(CutsOf(gcode)) >= 3
    /\ Cardinality({k \in 1..Len(gcode) : IsRapid(gcode[k])}) = 1

\* ------------------------------------------- the bulge arithmetic on its own
\* Lines 119-128 applied to one pair of vertices. The coordinates are whole
\* units here, so that the squares stay within the integers of TLC.
MaxBulgePart == 3

ArcPoints == {<<0, 0>>, <<10, 0>>, <<3, 4>>, <<0, 0 - 5>>}
ArcBulges == {[n |-> s * n, d |-> d] :
                 s \in {0 - 1, 1}, n \in 1..MaxBulgePart, d \in 1..MaxBulgePart}

\* the square of radius = dist / (2 * sin(angle / 2)), angle = 4 * atan(bulge),
\* where sin(2 * atan(b)) = 2b / (1 + b^2): dist^2 * (1 + b^2)^2 / (4b)^2
BulgeRadiusSq(p1, p2, b) ==
    LET dx == p2[1] - p1[1]
        dy == p2[2] - p1[2]
        S == b.d * b.d + b.n * b.n
        D == 4 * Abs(b.n) * b.d
    IN  [num |-> (dx * dx + dy * dy) * S * S, den |-> D * D]

ArcInit ==
    /\ Fresh
    /\ prev = NoPrev
    /\ UploadIdle
    /\ \E p1 \in ArcPoints, p2 \in ArcPoints, b \in ArcBulges :
          /\ p1 # p2
          /\ arc = [NoArc EXCEPT !.p1 = p1, !.p2 = p2, !.bulge = b]

\* lines 119-128: radius, centre and direction of the arc of one pair
ComputeArc ==
    /\ ~arc.done
    /\ ~BulgeIsStraight(arc.bulge)
    /\ arc' = [arc EXCEPT !.done = TRUE,
                          !.center = BulgeCenter(arc.p1, arc.p2, arc.bulge),
                          !.radius_sq = BulgeRadiusSq(arc.p1, arc.p2, arc.bulge),
                          !.clockwise = arc.bulge.n < 0]
    /\ UNCHANGED <<convVars, uploadVars>>

ArcNext == ComputeArc

SpecArc == ArcInit /\ [][ArcNext]_vars

\* the square of the distance from the centre to p, over the square of the
\* denominator of the centre
DistSqNum(center, p) ==
    LET nx == (center.x.w - p[1]) * center.x.d + center.x.n
        ny == (center.y.w - p[2]) * center.y.d + center.y.n
    IN  nx * nx + ny * ny

\* C15: the centre computed for a pair of distinct vertices and a bulge that
\* is not straight is as far from the first vertex as from the second, and
\* that distance is the absolute value of the radius (exactly, the arithmetic
\* being exact here); (0,0), (10,0) with bulge 1 give centre (5,0), radius 5,
\* counterclockwise.
C15_CenterEquidistant ==
    arc.done =>
        /\ arc.center.x.d = arc.center.y.d
        /\ arc.radius_sq.den = arc.center.x.d * arc.center.x.d
        /\ DistSqNum(arc.center, arc.p1) = arc.radius_sq.num
        /\ DistSqNum(arc.center, arc.p2) = arc.radius_sq.num
        /\ (arc.p1 = <<0, 0>> /\ arc.p2 = <<10, 0>> /\ arc.bulge.n = arc.bulge.d) =>
              /\ arc.center.x.w = 5 /\ arc.center.x.n = 0
              /\ arc.center.y.w = 0 /\ arc.center.y.n = 0
              /\ arc.radius_sq.num = 25 * arc.radius_sq.den
              /\ ~arc.clockwise

\* a clockwise arc on a slanted chord whose centre is off the unit grid
C15_Witness ==
    /\ arc.done
    /\ arc.clockwise
    /\ arc.p1[1] # arc.p2[1]
    /\ arc.p1[2] # arc.p2[2]
    /\ arc.center.x.n # 0

\* ------------------------------------------------------------- the uploader
\* fluidnc_upload.py: main calls upload_file for every file argument; each
\* request of upload_file is one step, and u_log lists the requests issued.
MaxFiles == 2

FileArgs == {[dir |-> "", base |-> "a.gcode", exists |-> TRUE],
             [dir |-> "out", base |-> "a.gcode", exists |-> TRUE],
             [dir |-> "", base |-> "b.gcode", exists |-> FALSE]}
RemoteNames == {"a.gcode", "b.gcode"}
\* what a request can come to: an HTTP status, or an exception of requests
ListOutcomes == {"200", "404", "raise"}
DeleteOutcomes == {"200", "500", "raise"}
PostOutcomes == {"200", "500", "raise"}

\* os.path.basename(filename), and target_filename of lines 27-30
basename(f) == f.base
target_filename(f) == [sd |-> u_use_sd, name |-> basename(f)]

UploadInit ==
    /\ Fresh
    /\ prev = NoPrev
    /\ arc = NoArc
    /\ u_pc = "call"
    /\ u_use_sd \in BOOLEAN
    /\ u_files \in UNION {[1..k -> FileArgs] : k \in 1..MaxFiles}
    /\ u_idx = 1
    /\ u_log = <<>>
    /\ u_rets = <<>>
    /\ u_success = TRUE

\* upload_file returns r to the loop of main, lines 90-92
UReturn(r) ==
    /\ u_rets' = Append(u_rets, r)
    /\ u_success' = (u_success /\ r)
    /\ u_idx' = u_idx + 1
    /\ u_pc' = "call"

Request(req, f, outcome, listed) ==
    [call |-> u_idx, req |-> req, target |-> target_filename(f),
     outcome |-> outcome, listed |-> listed]

\* lines 22-24: the file does not exist
UNotFound ==
    /\ u_pc = "call"
    /\ u_idx <= Len(u_files)
    /\ ~u_files[u_idx].exists
    /\ UReturn(FALSE)
    /\ UNCHANGED <<u_use_sd, u_files, u_log>>
    /\ UNCHANGED <<convVars, arc>>

\* the listing never followed by a delete request
UListNoDelete ==
    /\ u_pc = "call"
    /\ u_idx <= Len(u_files)
    /\ u_files[u_idx].exists
    /\ \E outcome \in ListOutcomes, listed \in SUBSET RemoteNames :
          /\ outcome # "200" => listed = {}
          /\ u_log' = Append(u_log, Request("LIST", u_files[u_idx], outcome, listed))
          /\ IF outcome = "raise"
             THEN UReturn(FALSE)
             ELSE u_pc' = "post" /\ UNCHANGED <<u_idx, u_rets, u_success>>
    /\ UNCHANGED <<u_use_sd, u_files>>
    /\ UNCHANGED <<convVars, arc>>

\* lines 35-44: the listing request, and the search for the name in it
UList ==
    /\ u_pc = "call"
    /\ u_idx <= Len(u_files)
    /\ u_files[u_idx].exists
    /\ \E outcome \in ListOutcomes, listed \in SUBSET RemoteNames :
          /\ outcome # "200" => listed = {}
          /\ u_log' = Append(u_log, Request("LIST", u_files[u_idx], outcome, listed))
          /\ IF outcome = "raise"
             THEN UReturn(FALSE)
             ELSE /\ u_pc' = IF outcome = "200" /\ basename(u_files[u_idx]) \in listed
                             THEN "delete" ELSE "post"
                  /\ UNCHANGED <<u_idx, u_rets, u_success>>
    /\ UNCHANGED <<u_use_sd, u_files>>
    /\ UNCHANGED <<convVars, arc>>

\* lines 45-47: the delete request, whose response is not looked at
UDelete ==
    /\ u_pc = "delete"
    /\ \E outcome \in DeleteOutcomes :
          /\ u_log' = Append(u_log, Request("DELETE", u_files[u_idx], outcome, {}))
          /\ IF outcome = "raise"
             THEN UReturn(FALSE)
             ELSE u_pc' = "post" /\ UNCHANGED <<u_idx, u_rets, u_success>>
    /\ UNCHANGED <<u_use_sd, u_files>>
    /\ UNCHANGED <<convVars, arc>>

\* lines 49-70: the upload request and the value returned for its status
UPost ==
    /\ u_pc = "post"
    /\ \E outcome \in PostOutcomes :
          /\ u_log' = Append(u_log, Request("POST", u_files[u_idx], outcome, {}))
          /\ UReturn(outcome = "200")
    /\ UNCHANGED <<u_use_sd, u_files>>
    /\ UNCHANGED <<convVars, arc>>

\* line 94: sys.exit(0 if success else 1)
UExit ==
    /\ u_pc = "call"
    /\ u_idx > Len(u_files)
    /\ u_pc' = IF u_success THEN "exit 0" ELSE "exit 1"
    /\ UNCHANGED <<u_use_sd, u_files, u_idx, u_log, u_rets, u_success>>
    /\ UNCHANGED <<convVars, arc>>

UploadNext == UNotFound \/ UList \/ UDelete \/ UPost \/ UExit

SpecUpload == UploadInit /\ [][UploadNext]_vars

\* C16: every upload request in the log follows a listing request of the same
\* call, with a delete request for the same target between the two when the
\* listing answered 200 and named the file; and a call returned True only
\* when its upload request was answered 200.
C16_DeleteBeforeUpload ==
    /\ \A k \in 1..Len(u_log) :
          u_log[k].req = "POST" =>
             \E j \in 1..(k - 1) :
                /\ u_log[j].req = "LIST"
                /\ u_log[j].call = u_log[k].call
                /\ (u_log[j].outcome = "200"
                    /\ u_log[k].target.name \in u_log[j].listed) =>
                      \E m \in (j + 1)..(k - 1) :
                         /\ u_log[m].req = "DELETE"
                         /\ u_log[m].call = u_log[k].call
                         /\ u_log[m].target = u_log[k].target
    /\ \A c \in 1..Len(u_rets) :
          u_rets[c] =>
             \E k \in 1..Len(u_log) :
                /\ u_log[k].call = c
                /\ u_log[k].req = "POST"
                /\ u_log[k].outcome = "200"

\* the second call replaced the file the first call had uploaded
C16_Witness ==
    /\ u_pc = "exit 0"
    /\ Len(u_rets) = 2
    /\ \E j, m, k \in 1..Len(u_log) :
          /\ j < m /\ m < k
          /\ u_log[j].call = 2 /\ u_log[j].req = "LIST"
          /\ "a.gcode" \in u_log[j].listed
          /\ u_log[m].req = "DELETE"
          /\ u_log[k].req = "POST" /\ u_log[k].outcome = "200"
====
